---- MODULE Spec2Model ----
(***************************************************************************)
(* Batch orchestration of gee_embedding_download: the two downloaders      *)
(* (download.py, index-resume; gee_embedding_download.py, per-item-exists) *)
(* and the validator (validate.py), over one output directory tree.        *)
(***************************************************************************)
EXTENDS Integers, Sequences, FiniteSets, TLC

(* ------------------------------ bounds --------------------------------- *)
\* largest grid (tiles of the grid asset / of a zone asset)
MaxTiles == 3
\* downloader runs in one behaviour
MaxRuns == 2
\* environment faults (failed request, bad response, failed remove, ...) in one behaviour
MaxFaults == 1
\* UTM zones the country's grid cells lie in
MaxZones == 2
\* pool slots: cores = max(1, cpu_count() - 1)
Cores == 2

(* ------------------------- configuration ------------------------------- *)
\* config.get('MAX_RETRIES', 5): the value of the configuration modelled here
MAX_RETRIES == 3
\* config.get('BASE_WAIT', 2.0), seconds
BASE_WAIT == 2
EXPECTED_LABEL_BANDS == 1
\* config.get('SOUTH', False)
SOUTH == FALSE
\* CHUNKS.items(), in insertion order
ChunkNames == <<"bands_a", "bands_b">>
CHUNKS == [bands_a |-> <<"A01", "A02">>, bands_b |-> <<"A03">>]

(* ------------------------------ helpers -------------------------------- *)
RECURSIVE Pow2(_)
Pow2(k) == IF k = 0 THEN 1 ELSE 2 * Pow2(k - 1)

MaxOf(S) == CHOOSE m \in S : \A x \in S : x <= m

\* range(a, b) as a sequence
Range(a, b) == [k \in 1..(IF b > a THEN b - a ELSE 0) |-> a + k - 1]

SeqSet(s) == {s[k] : k \in 1..Len(s)}

\* centroid of tile i of the grid asset (degrees)
Centroid(i) == [lon |-> ((i * 97 + 190) % 360) - 180, lat |-> IF i % 2 = 0 THEN 52 ELSE -5]

\* variant: the hemisphere offsets are swapped
TileEpsg_swapped(lon, lat) ==
    LET utm_zone == ((lon + 180) \div 6) + 1
    IN  IF lat < 0 THEN 32600 + utm_zone ELSE 32700 + utm_zone

\* per-tile resolver of check_and_download
TileEpsg(lon, lat) ==
    LET utm_zone == ((lon + 180) \div 6) + 1
    IN  IF lat < 0 THEN 32700 + utm_zone ELSE 32600 + utm_zone

\* int(CRS.from_dict({'proj': 'utm', 'zone': zone, 'south': south}).to_authority()[1]):
\* the WGS 84 / UTM code of the zone and hemisphere
from_dict(zone, south) == IF south THEN 32700 + zone ELSE 32600 + zone

\* per-zone code of export_zone_grids: the hemisphere is the SOUTH flag
ZoneEpsg(zone) == from_dict(zone, SOUTH)

\* the output path of an item: {chunk dir}/google_embed_.._{epsg}_{chunk}_{idx}.tif
OutPath(chunk, epsg, idx) == [dir |-> chunk, epsg |-> epsg, idx |-> idx]

\* variant: the label band is not counted
ExpectedBands_nolabel(chunk) == Len(CHUNKS[chunk])

ExpectedBands(chunk) == EXPECTED_LABEL_BANDS + Len(CHUNKS[chunk])

\* band counts a downloaded raster may have: the right one, or one meant for
\* another band list
RespCounts(chunk) == {EXPECTED_LABEL_BANDS + Len(CHUNKS[c]) : c \in SeqSet(ChunkNames)}

VARIABLES
    script,      \* "download" (download.py) or "gee" (gee_embedding_download.py)
    size,        \* number of tiles of the tile source
    zone_info,   \* gee: the zones returned by export_zone_grids
    fs,          \* the artifact files: path -> content, DOMAIN fs = existing files
    manifest,    \* chunk -> bands_used.txt written in that directory
    run,         \* downloader runs started
    mainPc,      \* "idle", "pool", "done", "crashed", "killed"
    batch,       \* index of the current (chunk, zone) loop iteration
    all_params,  \* tile indices emitted for the current batch
    w,           \* tile index -> worker state of the current batch
    results,     \* tile index -> result of the item in the current batch
    attempts,    \* tile index -> download attempts (URL requests) in this batch
    gets,        \* tile index -> HTTP GETs in this batch
    sleeps,      \* tile index -> backoff sleeps (seconds) in this batch
    errlog,      \* tile index -> the error logged for the item: "none", "image", "retries"
    written,     \* tile index -> the paths the item's worker opened for writing in this batch
    existed,     \* tile indices whose output path existed when the batch started
    okRun,       \* every item emitted so far in this run returned a path
    prevDone,    \* the previous run finished every batch
    prevOk,      \* the previous run finished every batch with a path for every item
    faults,      \* environment faults left
    vPc,         \* validator: "idle", "delete", "swept"
    vChunk,      \* validator: index of the chunk being swept
    vMarked,     \* validator: paths validate_file returned, still to remove
    vSnap,       \* validator: the chunk directory when the sweep listed it
    vFailed,     \* validator: paths whose os.remove raised in this sweep
    vDeleted,    \* paths the validator removed since the last downloader run started
    delBefore,   \* paths the validator removed between the previous run and this one
    crs,         \* the CRS resolver on its own: its input and the code it resolved
    mlog,        \* the writes of bands_used.txt in this run, in order
    zones,       \* gee: the ZONE values of the grid cells that meet the country
    area_sq_m,   \* gee: zone -> area of its intersection with the country
    assets,      \* gee: the zones whose grid asset exists remotely
    pPc,         \* export_zone_grids: "idle", "zones", "poll", "returned", "exit", "raised"
    pz,          \* export_zone_grids: position of the zone loop in zones
    task,        \* export_zone_grids: state of the export task of the current zone
    prun,        \* the run whose export_zone_grids call this is
    plog,        \* export_zone_grids: what happened to each zone visited, in order
    prevAll      \* the previous call returned and every task it submitted completed

vars == <<script, size, zone_info, fs, manifest, run, mainPc, batch, all_params, w,
          results, attempts, gets, sleeps, errlog, written, existed, okRun, prevDone,
          prevOk, faults,
          vPc, vChunk, vMarked, vSnap, vFailed, vDeleted, delBefore, crs, mlog,
          zones, area_sq_m, assets, pPc, pz, task, prun, plog, prevAll>>

mainVars == <<run, mainPc, batch, all_params, existed, okRun, prevDone, prevOk>>
histVars == <<attempts, gets, sleeps, errlog, written>>
valVars == <<vPc, vChunk, vMarked, vSnap, vFailed, vDeleted, delBefore>>
cfgVars == <<script, size, zone_info>>
\* what neither the pool nor the sweep touches
provVars == <<zones, area_sq_m, assets, pPc, pz, task, prun, plog, prevAll>>
extVars == <<crs, provVars>>

Tiles == 0..(size - 1)

\* the content of a file opened for writing and not yet written: unreadable
Truncated == [complete |-> FALSE, count |-> 0, tagged |-> FALSE]
Idle == [pc |-> "idle", attempt |-> 0, resp |-> 0]

Exists(p) == p \in DOMAIN fs

\* os.listdir(chunk dir), the .tif files
ListDir(chunk) == {p \in DOMAIN fs : p.dir = chunk}

(* ------------------------- the work of one run ------------------------- *)
\* zones of the inner loop of main (gee); download.py has no zone loop
NZ == IF script = "download" THEN 1 ELSE Len(zone_info)
NBatches == Len(ChunkNames) * NZ
BatchChunk(k) == ChunkNames[((k - 1) \div NZ) + 1]
BatchZone(k) == ((k - 1) % NZ) + 1

\* the CRS code in the file name of tile i in batch k
ItemEpsg(k, i) ==
    IF script = "download" THEN TileEpsg(Centroid(i).lon, Centroid(i).lat)
    ELSE zone_info[BatchZone(k)].epsg

\* os.path.join(out_dir, "bands_used.txt")
bands_used(chunk) == [dir |-> chunk, epsg |-> 0, idx |-> -1]

\* variant: the file name lacks the tile index
outp_noidx(k, i) == OutPath(BatchChunk(k), ItemEpsg(k, i), 0)

\* variant: the file name carries a component that differs from run to run
outp_per_run(k, i) == OutPath(BatchChunk(k), ItemEpsg(k, i), i + run * MaxTiles)

outp(k, i) == OutPath(BatchChunk(k), ItemEpsg(k, i), i)

\* download.py main: the tile indices parsed from the .tif names of the directory
existing_files(chunk) == {p.idx : p \in ListDir(chunk)}

\* variant: resumes at the last existing index instead of after it
start_index_at_max(chunk) ==
    IF existing_files(chunk) # {} THEN MaxOf(existing_files(chunk)) ELSE 0

start_index(chunk) ==
    IF existing_files(chunk) # {} THEN MaxOf(existing_files(chunk)) + 1 ELSE 0

\* all_params of the batch: download.py resumes at start_index, gee emits every tile
Emit(k) ==
    IF script = "download" THEN Range(start_index(BatchChunk(k)), size)
    ELSE Range(0, size)

Active(t) == w[t].pc \notin {"idle", "queued", "done"}
Stopped == mainPc \in {"idle", "done", "crashed", "killed", "exited"}

Put(p, v) == [q \in (DOMAIN fs) \cup {p} |-> IF q = p THEN v ELSE fs[q]]
Remove(p) == [q \in (DOMAIN fs) \ {p} |-> fs[q]]

\* one environment fault is spent
Fault == faults > 0 /\ faults' = faults - 1

(* ----------------------------- main ------------------------------------ *)
StartRun ==
    /\ Stopped /\ vPc = "idle" /\ run < MaxRuns
    /\ run' = run + 1
    /\ mainPc' = "next"
    /\ batch' = 0
    /\ prevDone' = (mainPc = "done")
    /\ prevOk' = (mainPc = "done" /\ okRun)
    /\ okRun' = TRUE
    /\ all_params' = <<>>
    /\ existed' = {}
    /\ w' = [t \in Tiles |-> Idle]
    /\ results' = [t \in Tiles |-> "pending"]
    /\ attempts' = [t \in Tiles |-> 0]
    /\ gets' = [t \in Tiles |-> 0]
    /\ sleeps' = [t \in Tiles |-> <<>>]
    /\ errlog' = [t \in Tiles |-> "none"]
    /\ written' = [t \in Tiles |-> {}]
    /\ delBefore' = vDeleted
    /\ vDeleted' = {}
    /\ mlog' = <<>>
    /\ UNCHANGED <<cfgVars, extVars, fs, manifest, faults, vPc, vChunk, vMarked, vSnap,
                   vFailed>>

\* one iteration of the chunk (and zone) loop up to the dispatch of the pool
StartBatch ==
    /\ mainPc = "next" /\ batch < NBatches
    /\ batch' = batch + 1
    /\ all_params' = Emit(batch + 1)
    /\ existed' = {t \in Tiles : Exists(outp(batch + 1, t))}
    /\ w' = [t \in Tiles |-> IF t \in SeqSet(Emit(batch + 1))
                             THEN [Idle EXCEPT !.pc = "queued"] ELSE Idle]
    /\ results' = [t \in Tiles |-> "pending"]
    /\ attempts' = [t \in Tiles |-> 0]
    /\ gets' = [t \in Tiles |-> 0]
    /\ sleeps' = [t \in Tiles |-> <<>>]
    /\ errlog' = [t \in Tiles |-> "none"]
    /\ written' = [t \in Tiles |-> {}]
    /\ mainPc' = "pool"
    /\ UNCHANGED <<cfgVars, extVars, fs, manifest, mlog, run, okRun, prevDone, prevOk,
                   faults, valVars>>

\* every result collected without an exception: log succeeded/total, next iteration
FinishBatch ==
    /\ mainPc = "pool"
    /\ \A t \in SeqSet(all_params) : results[t] \in {"None", "outp"}
    /\ okRun' = (okRun /\ \A t \in SeqSet(all_params) : results[t] = "outp")
    /\ mainPc' = IF batch = NBatches THEN "done" ELSE "next"
    /\ UNCHANGED <<cfgVars, extVars, fs, manifest, mlog, run, batch, all_params, w,
                   results, histVars,
                   existed, prevDone, prevOk, faults, valVars>>

\* r.get() / the imap iterator re-raises the exception of the first item that
\* raised; the with-block terminates the pool and main ends with the exception
Crash ==
    /\ mainPc = "pool"
    /\ \E t \in SeqSet(all_params) :
          /\ results[t] = "raised"
          /\ \A u \in SeqSet(all_params) : u < t => results[u] # "pending"
    /\ mainPc' = "crashed"
    /\ w' = [t \in Tiles |-> IF w[t].pc = "done" THEN w[t] ELSE Idle]
    /\ UNCHANGED <<cfgVars, extVars, fs, manifest, mlog, run, batch, all_params, results,
                   histVars,
                   existed, okRun, prevDone, prevOk, faults, valVars>>

\* the process is terminated from outside while the pool works
Kill ==
    /\ mainPc = "pool"
    /\ Fault
    /\ mainPc' = "killed"
    /\ w' = [t \in Tiles |-> IF w[t].pc = "done" THEN w[t] ELSE Idle]
    /\ UNCHANGED <<cfgVars, extVars, fs, manifest, mlog, run, batch, all_params, results,
                   histVars,
                   existed, okRun, prevDone, prevOk, valVars>>

(* ---------------------------- the worker ------------------------------- *)
\* the pool hands the queued tasks to its free processes in submission order
Dispatch(t) ==
    /\ mainPc = "pool" /\ w[t].pc = "queued"
    /\ \A u \in Tiles : u < t => w[u].pc # "queued"
    /\ Cardinality({u \in Tiles : Active(u)}) < Cores

\* the worker returns r
Return(t, r) ==
    /\ w' = [w EXCEPT ![t] = [Idle EXCEPT !.pc = "done"]]
    /\ results' = [results EXCEPT ![t] = r]

\* variant: one iteration too many
Loop_inclusive(t, k) ==
    IF k <= MAX_RETRIES
    THEN /\ w' = [w EXCEPT ![t] = [pc |-> "request", attempt |-> k, resp |-> 0]]
         /\ UNCHANGED <<results, errlog>>
    ELSE /\ Return(t, "None")
         /\ errlog' = [errlog EXCEPT ![t] = "retries"]

\* for attempt in range(MAX_RETRIES): the next iteration, or the code after the loop
Loop(t, k) ==
    IF k < MAX_RETRIES
    THEN /\ w' = [w EXCEPT ![t] = [pc |-> "request", attempt |-> k, resp |-> 0]]
         /\ UNCHANGED <<results, errlog>>
    ELSE /\ Return(t, "None")
         /\ errlog' = [errlog EXCEPT ![t] = "retries"]

\* check_and_download up to the retry loop: the CRS of the centroid (getInfo,
\* outside any try), the exists check, the composite definition
check_and_download(t) ==
    /\ script = "download" /\ Dispatch(t)
    /\ \/ /\ Fault
          /\ w' = [w EXCEPT ![t] = [Idle EXCEPT !.pc = "done"]]
          /\ results' = [results EXCEPT ![t] = "raised"]
          /\ UNCHANGED errlog
       \/ /\ Exists(outp(batch, t))
          /\ Return(t, "None")
          /\ UNCHANGED <<errlog, faults>>
       \/ /\ ~Exists(outp(batch, t))
          /\ Fault
          /\ Return(t, "None")
          /\ errlog' = [errlog EXCEPT ![t] = "image"]
       \/ /\ ~Exists(outp(batch, t))
          /\ Loop(t, 0)
          /\ UNCHANGED faults
    /\ UNCHANGED <<cfgVars, extVars, fs, manifest, mlog, mainVars, attempts, gets,
                   sleeps, written, valVars>>

\* variant: no exists check before the retry loop
download_images_noexists(t) ==
    /\ script = "gee" /\ Dispatch(t)
    /\ \/ /\ Fault
          /\ Return(t, "raised")
          /\ UNCHANGED errlog
       \/ /\ Fault
          /\ Return(t, "None")
          /\ errlog' = [errlog EXCEPT ![t] = "image"]
       \/ /\ Loop(t, 0)
          /\ UNCHANGED faults
    /\ UNCHANGED <<cfgVars, extVars, fs, manifest, mlog, mainVars, attempts, gets,
                   sleeps, written, valVars>>

\* download_images up to the retry loop: the reprojection (feat.transform,
\* outside any try), the composite definition, then the exists check
download_images(t) ==
    /\ script = "gee" /\ Dispatch(t)
    /\ \/ /\ Fault
          /\ Return(t, "raised")
          /\ UNCHANGED errlog
       \/ /\ Fault
          /\ Return(t, "None")
          /\ errlog' = [errlog EXCEPT ![t] = "image"]
       \/ /\ Exists(outp(batch, t))
          /\ Return(t, "outp")
          /\ UNCHANGED <<errlog, faults>>
       \/ /\ ~Exists(outp(batch, t))
          /\ Loop(t, 0)
          /\ UNCHANGED faults
    /\ UNCHANGED <<cfgVars, extVars, fs, manifest, mlog, mainVars, attempts, gets,
                   sleeps, written, valVars>>

\* an attempt begins: reproject, getDownloadURL, requests.get, raise_for_status,
\* and open(outp, 'wb'), which creates or truncates the file
Request(t) ==
    /\ mainPc = "pool" /\ w[t].pc = "request"
    /\ attempts' = [attempts EXCEPT ![t] = @ + 1]
    /\ \/ /\ Fault
          /\ w' = [w EXCEPT ![t].pc = "sleep"]
          /\ UNCHANGED <<gets, fs, written>>
       \/ /\ Fault
          /\ gets' = [gets EXCEPT ![t] = @ + 1]
          /\ w' = [w EXCEPT ![t].pc = "sleep"]
          /\ UNCHANGED <<fs, written>>
       \/ /\ gets' = [gets EXCEPT ![t] = @ + 1]
          /\ \E c \in RespCounts(BatchChunk(batch)) :
                /\ w' = [w EXCEPT ![t].pc = "write", ![t].resp = c]
                /\ IF c = ExpectedBands(BatchChunk(batch)) THEN UNCHANGED faults ELSE Fault
          /\ fs' = Put(outp(batch, t), Truncated)
          /\ written' = [written EXCEPT ![t] = @ \cup {outp(batch, t)}]
    /\ UNCHANGED <<cfgVars, extVars, manifest, mlog, mainVars, results, sleeps, errlog,
                   valVars>>

\* f.write(r.content): the bytes are on disk, or the write raises part way
Write(t) ==
    /\ mainPc = "pool" /\ w[t].pc = "write"
    /\ \/ /\ fs' = Put(outp(batch, t),
                       [complete |-> TRUE, count |-> w[t].resp, tagged |-> FALSE])
          /\ w' = [w EXCEPT ![t].pc = "tag"]
          /\ UNCHANGED faults
       \/ /\ Fault
          /\ w' = [w EXCEPT ![t].pc = "sleep"]
          /\ UNCHANGED fs
    /\ UNCHANGED <<cfgVars, extVars, manifest, mlog, mainVars, results, histVars, valVars>>

\* rasterio.open(outp, 'r+') and the band descriptions; then, for a tile other
\* than 0, return outp
Tag(t) ==
    /\ mainPc = "pool" /\ w[t].pc = "tag"
    /\ \/ /\ fs' = Put(outp(batch, t), [fs[outp(batch, t)] EXCEPT !.tagged = TRUE])
          /\ IF t = 0
             THEN w' = [w EXCEPT ![t].pc = "manifest"] /\ UNCHANGED results
             ELSE Return(t, "outp")
          /\ UNCHANGED faults
       \/ /\ Fault
          /\ w' = [w EXCEPT ![t].pc = "sleep"]
          /\ UNCHANGED <<fs, results>>
    /\ UNCHANGED <<cfgVars, extVars, manifest, mlog, mainVars, histVars, valVars>>

\* if i == 0: bands_used.txt; return outp
Manifest(t) ==
    /\ mainPc = "pool" /\ w[t].pc = "manifest"
    /\ \/ /\ manifest' = [manifest EXCEPT ![BatchChunk(batch)] = TRUE]
          /\ mlog' = Append(mlog, [chunk |-> BatchChunk(batch), batch |-> batch, tile |-> t,
                                   after |-> IF Exists(outp(batch, t))
                                             THEN fs[outp(batch, t)] ELSE Truncated])
          /\ written' = [written EXCEPT ![t] = @ \cup {bands_used(BatchChunk(batch))}]
          /\ Return(t, "outp")
          /\ UNCHANGED faults
       \/ /\ Fault
          /\ w' = [w EXCEPT ![t].pc = "sleep"]
          /\ UNCHANGED <<manifest, mlog, results, written>>
    /\ UNCHANGED <<cfgVars, extVars, fs, mainVars, attempts, gets, sleeps, errlog, valVars>>

\* except Exception: the warning, time.sleep(BASE_WAIT * 2**attempt), and the
\* next iteration or the error after the loop
Sleep(t) ==
    /\ mainPc = "pool" /\ w[t].pc = "sleep"
    /\ sleeps' = [sleeps EXCEPT ![t] = Append(@, BASE_WAIT * Pow2(w[t].attempt))]
    /\ Loop(t, w[t].attempt + 1)
    /\ UNCHANGED <<cfgVars, extVars, fs, manifest, mlog, mainVars, attempts, gets,
                   written, faults,
                   valVars>>

(* ---------------------------- the validator ---------------------------- *)
\* variant: the band count is not compared
validate_file_nocount(p, expected_bands) ==
    IF ~Exists(p) THEN TRUE
    ELSE ~fs[p].complete

\* validate_file: the path when the file is missing, unreadable or has another
\* band count; None (here FALSE) otherwise
validate_file(p, expected_bands) ==
    IF ~Exists(p) THEN TRUE
    ELSE IF ~fs[p].complete THEN TRUE
    ELSE fs[p].count # expected_bands

\* sorted(...) of paths of one directory: by the file name
RECURSIVE Sorted(_)
Sorted(S) ==
    IF S = {} THEN <<>>
    ELSE LET m == CHOOSE x \in S : \A y \in S :
                     x.epsg < y.epsg \/ (x.epsg = y.epsg /\ x.idx <= y.idx)
         IN  <<m>> \o Sorted(S \ {m})

\* one iteration of the chunk loop up to the delete loop: list the directory and
\* validate every .tif in it
ValidateChunk ==
    /\ Stopped
    /\ \/ vPc = "idle" /\ vChunk = 0
       \/ vPc = "swept" /\ vChunk < Len(ChunkNames)
    /\ LET chunk == ChunkNames[vChunk + 1]
           tif_files == Sorted(ListDir(chunk))
       IN  /\ vMarked' = SelectSeq(tif_files,
                                   LAMBDA p : validate_file(p, ExpectedBands(chunk)))
           /\ vSnap' = [p \in ListDir(chunk) |-> fs[p]]
    /\ vChunk' = vChunk + 1
    /\ vFailed' = {}
    /\ vPc' = "delete"
    /\ UNCHANGED <<cfgVars, extVars, fs, manifest, mlog, mainVars, w, results, histVars,
                   faults, vDeleted,
                   delBefore>>

\* one iteration of "for path in results": os.remove, or the exception it raises
RemoveOne ==
    /\ vPc = "delete" /\ vMarked # <<>>
    /\ LET path == Head(vMarked)
       IN  \/ /\ Exists(path)
              /\ fs' = Remove(path)
              /\ vDeleted' = vDeleted \cup {path}
              /\ UNCHANGED <<vFailed, faults>>
           \/ /\ Exists(path)
              /\ Fault
              /\ vFailed' = vFailed \cup {path}
              /\ UNCHANGED <<fs, vDeleted>>
           \/ /\ ~Exists(path)
              /\ UNCHANGED <<fs, vDeleted, vFailed, faults>>
    /\ vMarked' = Tail(vMarked)
    /\ UNCHANGED <<cfgVars, extVars, manifest, mlog, mainVars, w, results, histVars, vPc,
                   vChunk, vSnap,
                   delBefore>>

\* the delete loop is over: the count of deleted files is logged
SweepDone ==
    /\ vPc = "delete" /\ vMarked = <<>>
    /\ vPc' = "swept"
    /\ UNCHANGED <<cfgVars, extVars, fs, manifest, mlog, mainVars, w, results, histVars,
                   faults,
                   vChunk, vMarked, vSnap, vFailed, vDeleted, delBefore>>

\* the validator ends after the last chunk
ValidatorExit ==
    /\ vPc = "swept" /\ vChunk = Len(ChunkNames)
    /\ vPc' = "idle"
    /\ vChunk' = 0
    /\ vSnap' = [p \in {} |-> Truncated]
    /\ vFailed' = {}
    /\ UNCHANGED <<cfgVars, extVars, fs, manifest, mlog, mainVars, w, results, histVars,
                   faults,
                   vMarked, vDeleted, delBefore>>

(* --------------------------- specification ----------------------------- *)
\* the state before the first run: which script runs, the size of its tile
\* source, the files already in the output tree, the faults the environment
\* may still inject
InitWith(scripts, sizes, files, f) ==
    /\ script \in scripts
    /\ size \in sizes
    /\ fs \in files
    /\ manifest = [c \in SeqSet(ChunkNames) |-> FALSE]
    /\ run = 0
    /\ mainPc = "idle"
    /\ batch = 0
    /\ all_params = <<>>
    /\ w = [t \in Tiles |-> Idle]
    /\ results = [t \in Tiles |-> "pending"]
    /\ attempts = [t \in Tiles |-> 0]
    /\ gets = [t \in Tiles |-> 0]
    /\ sleeps = [t \in Tiles |-> <<>>]
    /\ errlog = [t \in Tiles |-> "none"]
    /\ written = [t \in Tiles |-> {}]
    /\ existed = {}
    /\ okRun = FALSE
    /\ prevDone = FALSE
    /\ prevOk = FALSE
    /\ faults = f
    /\ vPc = "idle"
    /\ vChunk = 0
    /\ vMarked = <<>>
    /\ vSnap = [p \in {} |-> Truncated]
    /\ vFailed = {}
    /\ vDeleted = {}
    /\ delBefore = {}
    /\ mlog = <<>>

\* export_zone_grids is taken as done: gee works on one zone whose asset exists
OneZone ==
    /\ zone_info = IF script = "gee" THEN <<[zone |-> 32, epsg |-> ZoneEpsg(32)]>> ELSE <<>>
    /\ zones = IF script = "gee" THEN <<32>> ELSE <<>>
    /\ area_sq_m = [z \in SeqSet(zones) |-> 1]
    /\ assets = SeqSet(zones)
    /\ pPc = "idle"
    /\ pz = 0
    /\ task = "none"
    /\ prun = 0
    /\ plog = <<>>
    /\ prevAll = FALSE

\* no CRS case is being resolved on its own
NoCrs == [kind |-> "none", lon |-> 0, lat |-> 0, zone |-> 0, south |-> FALSE, code |-> 0]

NoFiles == {[p \in {} |-> Truncated]}

Init == InitWith({"download", "gee"}, 1..MaxTiles, NoFiles, MaxFaults) /\ crs = NoCrs /\ OneZone

Downloader ==
    \/ StartBatch
    \/ FinishBatch
    \/ Crash
    \/ Kill
    \/ \E t \in Tiles : check_and_download(t)
    \/ \E t \in Tiles : download_images(t)
    \/ \E t \in Tiles : Request(t)
    \/ \E t \in Tiles : Write(t)
    \/ \E t \in Tiles : Tag(t)
    \/ \E t \in Tiles : Manifest(t)
    \/ \E t \in Tiles : Sleep(t)

Validator ==
    \/ ValidateChunk
    \/ RemoveOne
    \/ SweepDone
    \/ ValidatorExit

Next ==
    \/ StartRun
    \/ Downloader
    \/ Validator

\* downloader runs and validator sweeps in any order, few faults
Spec == Init /\ [][Next]_vars

\* downloader runs one after the other, with no sweep in between
NextRuns ==
    \/ StartRun
    \/ Downloader

SpecRuns == Init /\ [][NextRuns]_vars

\* one run of either downloader over a small grid, with enough faults to fail
\* every attempt of an item
InitWorker ==
    InitWith({"download", "gee"}, 1..2, NoFiles, MAX_RETRIES + MaxFaults) /\ crs = NoCrs /\ OneZone

NextWorker ==
    \/ run = 0 /\ StartRun
    \/ Downloader

SpecWorker == InitWorker /\ [][NextWorker]_vars

\* the validator alone over an output tree that earlier runs left behind: any
\* tile's file may be missing, truncated, or complete with either band count
LeftPaths == {OutPath(c, TileEpsg(Centroid(i).lon, Centroid(i).lat), i) :
                 c \in SeqSet(ChunkNames), i \in Tiles}
LeftFiles == {Truncated} \cup {[complete |-> TRUE, count |-> n, tagged |-> TRUE] :
                                n \in RespCounts(ChunkNames[1])}
LeftTrees == UNION {[S -> LeftFiles] : S \in SUBSET LeftPaths}

InitValidate == InitWith({"download"}, 1..MaxTiles, LeftTrees, MaxFaults) /\ crs = NoCrs /\ OneZone

SpecValidate == InitValidate /\ [][Validator]_vars

(* ----------------------- export_zone_grids (gee) ----------------------- *)
\* what export_zone_grids leaves alone
poolVars == <<run, batch, all_params, existed, okRun, prevDone, prevOk, w, results, histVars>>
keptVars == <<script, size, crs, zones, area_sq_m, fs, manifest, mlog, poolVars, valVars>>

\* ee.data.getAsset(aid) raises ee.EEException: there is no such asset, or (err)
\* the service answers the call with another error
getAsset_raises(zone, err) == zone \notin assets \/ err

asset_exists(zone, err) == IF getAsset_raises(zone, err) THEN FALSE ELSE TRUE

\* the zone the loop is at, and the log entry of the zone visited last
CurZone == zones[pz]
Visit(a, h) == [zone |-> CurZone, area |-> a, had |-> h, subs |-> 0, end |-> "none"]
Logged(f, v) == [plog EXCEPT ![Len(plog)] = [@ EXCEPT ![f] = v]]

\* zone_info.append((zone, epsg, crs, asset_id))
AppendZone == Append(zone_info, [zone |-> CurZone, epsg |-> ZoneEpsg(CurZone)])

\* main calls export_zone_grids: the zones of the histogram (getInfo, outside
\* any try)
ListZones ==
    /\ script = "gee" /\ mainPc = "next" /\ batch = 0 /\ prun < run
    /\ prun' = run
    /\ prevAll' = /\ pPc = "returned"
                  /\ \A k \in 1..Len(plog) :
                        plog[k].area # "error" /\ plog[k].end \in {"none", "completed"}
    /\ zone_info' = <<>>
    /\ plog' = <<>>
    /\ task' = "none"
    /\ \/ /\ pPc' = "zones"
          /\ pz' = 1
          /\ UNCHANGED <<mainPc, faults>>
       \/ /\ Fault
          /\ pPc' = "raised"
          /\ mainPc' = "crashed"
          /\ UNCHANGED pz
    /\ UNCHANGED <<keptVars, assets>>

\* the area of the zone's intersection raises (logged, continue) or is 0 (continue)
SkipZone ==
    /\ pPc = "zones" /\ pz <= Len(zones)
    /\ \/ /\ Fault
          /\ plog' = Append(plog, Visit("error", CurZone \in assets))
       \/ /\ area_sq_m[CurZone] = 0
          /\ plog' = Append(plog, Visit("zero", CurZone \in assets))
          /\ UNCHANGED faults
    /\ pz' = pz + 1
    /\ UNCHANGED <<keptVars, assets, zone_info, mainPc, pPc, task, prun, prevAll>>

\* a zone with a nonzero area: its code, its grid, and the asset_exists check;
\* an existing asset is appended at once
CheckAsset ==
    /\ pPc = "zones" /\ pz <= Len(zones)
    /\ area_sq_m[CurZone] # 0
    /\ plog' = Append(plog, Visit("nonzero", CurZone \in assets))
    /\ \E err \in BOOLEAN :
          /\ IF err THEN CurZone \in assets /\ Fault ELSE UNCHANGED faults
          /\ IF asset_exists(CurZone, err)
             THEN /\ zone_info' = AppendZone
                  /\ pz' = pz + 1
                  /\ UNCHANGED pPc
             ELSE /\ pPc' = "start"
                  /\ UNCHANGED <<zone_info, pz>>
    /\ UNCHANGED <<keptVars, assets, mainPc, task, prun, prevAll>>

\* Export.table.toAsset(...) and task.start(), outside any try
StartTask ==
    /\ pPc = "start"
    /\ \/ /\ task' = "active"
          /\ pPc' = "poll"
          /\ plog' = Logged("subs", 1)
          /\ UNCHANGED <<mainPc, faults>>
       \/ /\ Fault
          /\ pPc' = "raised"
          /\ mainPc' = "crashed"
          /\ UNCHANGED <<task, plog>>
    /\ UNCHANGED <<keptVars, assets, zone_info, pz, prun, prevAll>>

\* while task.active(): sleep(10); then "completed" is logged and the zone is
\* appended, whichever state ended the task; task.active() may raise
WaitExport ==
    /\ pPc = "poll"
    /\ \/ /\ \/ /\ CurZone \notin assets
                /\ task' = "completed"
                /\ assets' = assets \cup {CurZone}
                /\ UNCHANGED faults
             \/ /\ IF CurZone \in assets THEN UNCHANGED faults ELSE Fault
                /\ task' = "failed"
                /\ UNCHANGED assets
          /\ plog' = Logged("end", task')
          /\ zone_info' = AppendZone
          /\ pz' = pz + 1
          /\ pPc' = "zones"
          /\ UNCHANGED mainPc
       \/ /\ Fault
          /\ pPc' = "raised"
          /\ mainPc' = "crashed"
          /\ UNCHANGED <<task, assets, plog, zone_info, pz>>
    /\ UNCHANGED <<keptVars, prun, prevAll>>

\* variant: an empty zone_info is returned like any other
ZonesDone_noexit ==
    /\ pPc = "zones" /\ pz > Len(zones)
    /\ pPc' = "returned"
    /\ UNCHANGED <<keptVars, assets, zone_info, mainPc, pz, task, prun, plog, prevAll, faults>>

\* after the loop: sys.exit(1) when zone_info is empty, else return zone_info
ZonesDone ==
    /\ pPc = "zones" /\ pz > Len(zones)
    /\ IF zone_info = <<>>
       THEN pPc' = "exit" /\ mainPc' = "exited"
       ELSE pPc' = "returned" /\ UNCHANGED mainPc
    /\ UNCHANGED <<keptVars, assets, zone_info, pz, task, prun, plog, prevAll, faults>>

\* main, zone loop: fc.toList(fc.size()).getInfo() of a zone whose asset does
\* not exist raises, outside any try
MissingAsset ==
    /\ mainPc = "next" /\ batch < NBatches
    /\ pPc = "returned" /\ prun = run
    /\ zone_info[BatchZone(batch + 1)].zone \notin assets
    /\ mainPc' = "crashed"
    /\ UNCHANGED <<keptVars, provVars, zone_info, faults>>

\* main, zone loop: the tiles of the zone's asset are listed and the pool starts
LoadZone ==
    /\ pPc = "returned" /\ prun = run
    /\ mainPc = "next" /\ batch < NBatches
    /\ zone_info[BatchZone(batch + 1)].zone \in assets
    /\ StartBatch

ZoneLists == {[k \in 1..n |-> 31 + k] : n \in 0..MaxZones}

\* before the first run of gee_embedding_download.py: the zones of the country,
\* their areas, the assets left by earlier provisioning; every zone asset holds
\* one tile
InitZones ==
    /\ InitWith({"gee"}, {1}, NoFiles, MaxFaults)
    /\ crs = NoCrs
    /\ zone_info = <<>>
    /\ zones \in ZoneLists
    /\ area_sq_m \in [SeqSet(zones) -> {0, 1}]
    /\ assets \in SUBSET SeqSet(zones)
    /\ pPc = "idle"
    /\ pz = 0
    /\ task = "none"
    /\ prun = 0
    /\ plog = <<>>
    /\ prevAll = FALSE

NextZones ==
    \/ StartRun
    \/ ListZones
    \/ SkipZone
    \/ CheckAsset
    \/ StartTask
    \/ WaitExport
    \/ ZonesDone
    \/ MissingAsset
    \/ LoadZone
    \/ FinishBatch
    \/ Crash
    \/ \E t \in Tiles : download_images(t)
    \/ \E t \in Tiles : Request(t)
    \/ \E t \in Tiles : Write(t)
    \/ \E t \in Tiles : Tag(t)
    \/ \E t \in Tiles : Manifest(t)
    \/ \E t \in Tiles : Sleep(t)

\* runs of gee_embedding_download.py with its provisioning, over up to MaxZones
\* zones
SpecZones == InitZones /\ [][NextZones]_vars

(* ------------------------- the CRS resolver alone ---------------------- *)
\* centroid longitudes and latitudes (whole degrees), UTM zones
Lons == -180..180
Lats == {-90, -45, -5, -1, 0, 1, 45, 52, 90}
Zones == 1..60

CrsCases ==
    {[kind |-> "tile", lon |-> x, lat |-> y, zone |-> 0, south |-> FALSE, code |-> 0] :
        x \in Lons, y \in Lats}
    \cup
    {[kind |-> "zone", lon |-> 0, lat |-> 0, zone |-> z, south |-> s, code |-> 0] :
        z \in Zones, s \in BOOLEAN}

\* check_and_download: the code of the tile's centroid
ResolveTile ==
    /\ crs.kind = "tile" /\ crs.code = 0
    /\ crs' = [crs EXCEPT !.code = TileEpsg(crs.lon, crs.lat)]
    /\ UNCHANGED <<cfgVars, provVars, fs, manifest, mlog, mainVars, w, results, histVars,
                   faults, valVars>>

\* export_zone_grids: the code of a zone under the hemisphere flag
ResolveZone ==
    /\ crs.kind = "zone" /\ crs.code = 0
    /\ crs' = [crs EXCEPT !.code = from_dict(crs.zone, crs.south)]
    /\ UNCHANGED <<cfgVars, provVars, fs, manifest, mlog, mainVars, w, results, histVars,
                   faults, valVars>>

InitCrs == InitWith({"download"}, {1}, NoFiles, 0) /\ crs \in CrsCases /\ OneZone

NextCrs ==
    \/ ResolveTile
    \/ ResolveZone

SpecCrs == InitCrs /\ [][NextCrs]_vars

(* ------------------------------ properties ----------------------------- *)
NoFetch == \A t \in Tiles : attempts[t] = 0 /\ gets[t] = 0

\* C1 (as stated): whatever the first run's outcome, a run that follows a
\* finished run with no validator deletion in between requests no download URL
\* and performs no HTTP GET.
C1_IdempotenceAnyOutcome ==
    (run >= 2 /\ prevDone /\ delBefore = {}) => NoFetch

\* C1 (amended): when the previous run finished every batch and every item it
\* emitted returned its output path, and the validator deleted nothing in
\* between, the next run requests no download URL and performs no HTTP GET, in
\* both scripts.
C1_Idempotence ==
    (run >= 2 /\ prevOk /\ delBefore = {}) => NoFetch

C1_Witness ==
    /\ run = 2 /\ prevOk /\ delBefore = {} /\ mainPc = "done"
    /\ size >= 2 /\ DOMAIN fs # {}

\* C2: every artifact the validator deleted from a chunk directory is emitted
\* again by the next downloader run, whatever else remains in the directory.
C2_Regeneration ==
    mainPc = "pool" =>
        \A p \in delBefore : p.dir = BatchChunk(batch) => p.idx \in SeqSet(all_params)

\* C3: an item that entered the retry loop and did not succeed was attempted
\* exactly MAX_RETRIES times, returned None with the error logged, and did not
\* raise; no item is attempted more than MAX_RETRIES times.
C3_RetryBound ==
    \A t \in Tiles :
        /\ attempts[t] <= MAX_RETRIES
        /\ (w[t].pc = "done" /\ attempts[t] >= 1 /\ results[t] # "outp") =>
              /\ attempts[t] = MAX_RETRIES
              /\ results[t] = "None"
              /\ errlog[t] = "retries"
        /\ errlog[t] = "retries" => attempts[t] = MAX_RETRIES

C3_Witness ==
    \E t \in Tiles :
        /\ w[t].pc = "done" /\ results[t] = "None" /\ errlog[t] = "retries"
        /\ attempts[t] = MAX_RETRIES

\* C4: an item that failed all MAX_RETRIES attempts slept exactly
\* MAX_RETRIES - 1 times, BASE_WAIT * 2^k after failed attempt k, and never
\* after its last attempt.
C4_BackoffSchedule ==
    \A t \in Tiles :
        (w[t].pc = "done" /\ errlog[t] = "retries") =>
            /\ Len(sleeps[t]) = MAX_RETRIES - 1
            /\ \A k \in 1..Len(sleeps[t]) : sleeps[t][k] = BASE_WAIT * Pow2(k - 1)

\* C5: no exception leaves a worker, and main never ends with the exception of
\* an item.
C5_ErrorContainment ==
    /\ \A t \in Tiles : results[t] # "raised"
    /\ mainPc # "crashed"

\* C6: download.py emits, in ascending order, exactly the tile indices above
\* every index that has an artifact in the chunk directory (all of 0..size-1
\* when there is none), so never an item whose artifact exists.
C6_IndexResume ==
    (script = "download" /\ mainPc = "pool") =>
        /\ \A k \in 1..(Len(all_params) - 1) : all_params[k] < all_params[k + 1]
        /\ SeqSet(all_params) \subseteq Tiles
        /\ \A i \in Tiles : (i \in SeqSet(all_params)) <=> (\A e \in existed : e < i)
        /\ SeqSet(all_params) \cap existed = {}

C6_Witness ==
    /\ script = "download" /\ mainPc = "pool"
    /\ all_params # <<>>
    /\ \E e \in existed : \E i \in Tiles \ existed : i < e

\* C7 (as stated): in gee_embedding_download.py, when a batch is over,
\* downloads were attempted exactly for the tiles whose artifact did not exist
\* when it started.
C7_ExactlyComplement ==
    (script = "gee" /\ mainPc \in {"next", "done"} /\ batch >= 1) =>
        \A t \in Tiles : (attempts[t] >= 1) <=> (t \notin existed)

\* C7 (amended): in gee_embedding_download.py no download is attempted for a
\* tile whose artifact existed when the batch started, and every other tile
\* whose worker returned a result without the composite definition failing was
\* attempted at least once (a worker that fails before the retry loop, at the
\* composite definition or with an exception at the reprojection, attempts
\* none).
C7_PerItemExists ==
    script = "gee" =>
        \A t \in Tiles :
            /\ t \in existed => (attempts[t] = 0 /\ gets[t] = 0)
            /\ (t \notin existed /\ w[t].pc = "done" /\ errlog[t] # "image"
                  /\ results[t] # "raised") =>
                  attempts[t] >= 1

C7_Witness ==
    /\ script = "gee" /\ mainPc = "done"
    /\ \E e \in existed : \E i \in Tiles \ existed : i < e
    /\ \A i \in Tiles \ existed : attempts[i] >= 1

SnapValid(p) == vSnap[p].complete /\ vSnap[p].count = 1 + Len(CHUNKS[p.dir])

\* C8 (as stated): a sweep of a chunk directory deletes every file that is
\* unreadable or has another band count than 1 + |band-chunk|.
C8_DeletesEveryInvalid ==
    vPc = "swept" => \A p \in DOMAIN vSnap : ~SnapValid(p) => p \notin DOMAIN fs

\* C8 (amended): a sweep of a chunk directory leaves every readable file with
\* 1 + |band-chunk| bands in place and unmodified, and deletes every other file
\* of the directory unless os.remove raised for it, in which case the file stays
\* as it was.
C8_ValidatorSweep ==
    vPc = "swept" =>
        \A p \in DOMAIN vSnap :
            /\ SnapValid(p) => (p \in DOMAIN fs /\ fs[p] = vSnap[p] /\ p \notin vFailed)
            /\ (~SnapValid(p) /\ p \notin vFailed) => p \notin DOMAIN fs
            /\ p \in vFailed => (p \in DOMAIN fs /\ fs[p] = vSnap[p])

C8_Witness ==
    /\ vPc = "swept"
    /\ \E p \in DOMAIN vSnap : ~SnapValid(p) /\ vSnap[p].complete /\ p \notin DOMAIN fs
    /\ \E p \in DOMAIN vSnap : SnapValid(p) /\ p \in DOMAIN fs

\* C9 (as stated): after a sweep of a chunk directory every file left in it has
\* 1 + |band-chunk| bands, also when a deletion failed.
C9_BandCountAlways ==
    vPc = "swept" =>
        \A p \in ListDir(ChunkNames[vChunk]) :
            fs[p].complete /\ fs[p].count = 1 + Len(CHUNKS[p.dir])

\* C9 (amended): after a sweep of a chunk directory every file left in it has
\* 1 + |band-chunk| bands, except the files for which os.remove raised.
C9_BandCount ==
    vPc = "swept" =>
        \A p \in ListDir(ChunkNames[vChunk]) \ vFailed :
            fs[p].complete /\ fs[p].count = 1 + Len(CHUNKS[p.dir])

C9_Witness ==
    /\ vPc = "swept"
    /\ \E p \in DOMAIN vSnap : p \notin DOMAIN fs
    /\ vFailed # {}
    /\ ListDir(ChunkNames[vChunk]) \ vFailed # {}

\* C10: whenever the downloader has stopped, however it stopped, every output
\* path that exists holds the complete downloaded bytes.
C10_AtomicPersistence ==
    Stopped => \A p \in DOMAIN fs : fs[p].complete

\* C11: the code resolved for a tile centroid (lon, lat) is 32600 + zone when
\* lat >= 0 and 32700 + zone when lat < 0, where zone is the integer with
\* 6 * (zone - 1) <= lon + 180 < 6 * zone; (10, 52) gives 32632 and (-122, 45)
\* gives 32610; the code of a zone of the zone-partitioned script is
\* 32700 + zone when the SOUTH flag is set and 32600 + zone otherwise.
C11_CrsFormula ==
    crs.code # 0 =>
        /\ crs.kind = "tile" =>
              \E z \in 1..61 :
                 /\ 6 * (z - 1) <= crs.lon + 180 /\ crs.lon + 180 < 6 * z
                 /\ crs.lat >= 0 => crs.code = 32600 + z
                 /\ crs.lat < 0 => crs.code = 32700 + z
        /\ (crs.kind = "tile" /\ crs.lon = 10 /\ crs.lat = 52) => crs.code = 32632
        /\ (crs.kind = "tile" /\ crs.lon = -122 /\ crs.lat = 45) => crs.code = 32610
        /\ crs.kind = "zone" =>
              /\ crs.south => crs.code = 32700 + crs.zone
              /\ ~crs.south => crs.code = 32600 + crs.zone

C11_Witness ==
    /\ crs.kind = "tile" /\ crs.lon = -122 /\ crs.lat = 45 /\ crs.code = 32610

\* C19: for every centroid longitude in [-180, 180], the bounds included, and
\* every latitude, the code of the per-tile resolver lies in 32601..32660 or
\* 32701..32760.
C19_CodeRange ==
    (crs.kind = "tile" /\ crs.code # 0) =>
        crs.code \in (32601..32660) \cup (32701..32760)

\* C12: in every interleaving of the workers of one pool, no two workers open
\* the same path for writing, artifact files and bands_used.txt included; in
\* particular no two workers that run at the same time do.
C12_DisjointWrites ==
    \A t, u \in Tiles : t # u => written[t] \cap written[u] = {}

C12_Witness ==
    \E t, u \in Tiles :
        /\ t # u /\ Active(t) /\ Active(u)
        /\ w[t].pc = "manifest" /\ w[u].pc \in {"write", "tag"}
        /\ written[t] # {} /\ written[u] # {}

\* C14: an item whose reprojection or composite definition failed logged an
\* error and returned None at once, with no download attempt and no backoff
\* sleep; the failure never leaves the worker as an exception (in
\* gee_embedding_download.py the reprojection is the only step before the retry
\* loop that can).
C14_NonTransient ==
    \A t \in Tiles :
        /\ errlog[t] = "image" =>
              /\ w[t].pc = "done" /\ results[t] = "None"
              /\ attempts[t] = 0 /\ gets[t] = 0 /\ sleeps[t] = <<>>
        /\ script = "gee" => results[t] # "raised"

\* C17: whenever a worker has returned None after exhausting its retries, no
\* file exists at the item's output path, also when the bytes were written and
\* the tagging failed on every attempt.
C17_FailedLeavesNothing ==
    \A t \in Tiles :
        (w[t].pc = "done" /\ results[t] = "None" /\ errlog[t] = "retries") =>
            ~Exists(outp(batch, t))

\* the call of export_zone_grids of the current run has ended
Aborted == pPc = "exit" /\ prun = run
Returned == pPc = "returned" /\ prun = run
\* the zones of the log for which a nonzero area was computed
Yielding == SelectSeq(plog, LAMBDA e : e.area = "nonzero")

\* C13: export_zone_grids ends the run (sys.exit) exactly when no zone yielded
\* a nonzero area, before any work item is dispatched and with nothing written;
\* no pool ever starts unless it returned, which it does only with a zone of
\* nonzero area. A zone whose area computation failed is skipped and the loop
\* goes on: the zones are visited in order, and what is returned is exactly the
\* zones that yielded a nonzero area.
C13_ZoneDiscovery ==
    /\ Aborted =>
          /\ mainPc = "exited" /\ batch = 0 /\ mlog = <<>>
          /\ \A t \in Tiles : w[t] = Idle /\ attempts[t] = 0 /\ written[t] = {}
          /\ Len(plog) = Len(zones) /\ Yielding = <<>>
    /\ Returned => (Len(plog) = Len(zones) /\ Yielding # <<>>)
    /\ (mainPc = "pool" \/ batch >= 1) => Returned
    /\ prun = run =>
          /\ Len(plog) <= Len(zones)
          /\ \A k \in 1..Len(plog) : plog[k].zone = zones[k]
          /\ Len(zone_info) <= Len(Yielding)
          /\ \A i \in 1..Len(zone_info) : zone_info[i].zone = Yielding[i].zone
          /\ (pPc \in {"returned", "exit"}) => Len(zone_info) = Len(Yielding)

C13_Witness ==
    /\ Aborted /\ run = 2 /\ DOMAIN fs # {}
    /\ Len(zones) = 2
    /\ \E k \in 1..Len(plog) : plog[k].area = "error"

\* C15: for every zone with a nonzero area a task is submitted if and only if
\* no asset of the zone existed when it was checked, at most one task per zone
\* in a run, and a call that follows one in which every zone of nonzero area
\* had its asset or a completed export submits no task.
C15_IdempotentProvisioning ==
    prun = run =>
        /\ \A k \in 1..Len(plog) :
              /\ plog[k].subs <= 1
              /\ \A j \in 1..Len(plog) : j # k => plog[j].zone # plog[k].zone
              /\ (plog[k].area = "nonzero"
                    /\ (k < Len(plog) \/ pPc \in {"zones", "poll", "returned", "exit"})) =>
                    (plog[k].subs = 1 <=> ~plog[k].had)
        /\ prevAll => \A k \in 1..Len(plog) : plog[k].subs = 0

\* C16: within one run bands_used.txt of a chunk directory is written at most
\* once, by the worker of tile 0 and after that tile's artifact was written and
\* tagged, also when several zones share the directory.
C16_ManifestOnce ==
    /\ \A i, j \in 1..Len(mlog) : i # j => mlog[i].chunk # mlog[j].chunk
    /\ \A i \in 1..Len(mlog) :
          mlog[i].tile = 0 /\ mlog[i].after.complete /\ mlog[i].after.tagged

\* C18: every zone export_zone_grids returns has an asset that exists, and a
\* zone whose export task ended failed is not returned.
C18_ReturnedZonesUsable ==
    Returned =>
        /\ \A i \in 1..Len(zone_info) : zone_info[i].zone \in assets
        /\ \A k \in 1..Len(plog) :
              plog[k].end = "failed" =>
                  \A i \in 1..Len(zone_info) : zone_info[i].zone # plog[k].zone

====
